---- MODULE Spec2Model ----
(***************************************************************************)
(* Model of the ActiveDCA strategy engine (active_dca_strategy.py) and of  *)
(* the sequential backtest runner (backtest.py).                           *)
(*                                                                         *)
(* Python floats are modelled as exact rationals <<n, d>> (d > 0, lowest   *)
(* terms), so that "==" in a property means exact equality of the values   *)
(* the code computes.  None is the empty tuple.                            *)
(***************************************************************************)
EXTENDS Integers, Sequences, FiniteSets, TLC

\* ---------------------------------------------------------------- bounds
MaxLen == 3      \* longest historical series handed to run_backtest
MaxCalls == 1    \* direct executeStrategy calls made before the backtest

\* ------------------------------------------------------------- rationals
Abs(n) == IF n < 0 THEN -n ELSE n

RECURSIVE GCD(_, _)
GCD(a, b) == IF b = 0 THEN a ELSE GCD(b, a % b)

Norm(n, d) ==
  LET g == GCD(Abs(n), Abs(d))
      s == IF d < 0 THEN -1 ELSE 1
  IN  <<(s * n) \div g, (s * d) \div g>>

R(n) == <<n, 1>>
Zero == R(0)
None == <<>>

\* denominators are cancelled before multiplying
Inv(a) == IF a[1] < 0 THEN <<-a[2], -a[1]>> ELSE <<a[2], a[1]>>
RAdd(a, b) ==
  LET g == GCD(a[2], b[2])
  IN  Norm(a[1] * (b[2] \div g) + b[1] * (a[2] \div g), (a[2] \div g) * b[2])
RNeg(a) == <<-a[1], a[2]>>
RSub(a, b) == RAdd(a, RNeg(b))
RMul(a, b) ==
  LET g1 == GCD(Abs(a[1]), b[2])
      g2 == GCD(Abs(b[1]), a[2])
  IN  Norm((a[1] \div g1) * (b[1] \div g2), (a[2] \div g2) * (b[2] \div g1))
RDiv(a, b) == RMul(a, Inv(b))
RLt(a, b) ==
  LET g == GCD(a[2], b[2])
  IN  a[1] * (b[2] \div g) < b[1] * (a[2] \div g)
RLe(a, b) == ~RLt(b, a)

RECURSIVE Pow10(_)
Pow10(k) == IF k = 0 THEN 1 ELSE 10 * Pow10(k - 1)

\* round(x, k): nearest multiple of 10^-k, ties to the even digit
round(x, k) ==
  LET n == x[1]
      d == x[2]
      ip == n \div d
      rem == n - ip * d
      q == (rem * Pow10(k)) \div d
      r == rem * Pow10(k) - q * d
      up == (2 * r > d) \/ (2 * r = d /\ q % 2 = 1)
      f == IF up THEN q + 1 ELSE q
  IN  RAdd(R(ip), Norm(f, Pow10(k)))

\* ------------------------------------------------- strategy configuration
DefaultConfig ==
  [stop_investing |-> <<11, 10>>, sell_threshold |-> <<37, 20>>,
   dip_buy_threshold |-> <<3, 5>>, invest_percentage |-> <<7, 10>>,
   daily_investment |-> R(100), weight_coefficient |-> R(1)]

\* the constructor accepts any values; the ordering dip < stop < sell and
\* 0 <= invest_percentage <= 1 are not enforced
Configs ==
  { DefaultConfig,
    [DefaultConfig EXCEPT !.invest_percentage = Zero],
    [stop_investing |-> R(1), sell_threshold |-> <<3, 2>>,
     dip_buy_threshold |-> <<5, 2>>, invest_percentage |-> <<1, 2>>,
     daily_investment |-> R(1), weight_coefficient |-> R(2)],
    [stop_investing |-> R(2), sell_threshold |-> R(1),
     dip_buy_threshold |-> R(1), invest_percentage |-> R(1),
     daily_investment |-> R(2), weight_coefficient |-> R(3)],
    [stop_investing |-> R(1), sell_threshold |-> R(2),
     dip_buy_threshold |-> <<3, 5>>, invest_percentage |-> <<3, 2>>,
     daily_investment |-> R(1), weight_coefficient |-> R(1)] }

InitialCash == {Zero, R(1000)}

\* inputs of direct calls: price > 0, indicator > 0
Prices == {R(2), <<5, 4>>}
Indicators == {<<1, 16>>, R(1), <<5, 4>>, R(2)}

\* rows of the historical series: Date is the 8-digit YYYYMMDD integer
Samples ==
  { [Date |-> 20240102, btc_price |-> R(2), ahr999 |-> <<1, 16>>],
    [Date |-> 20240101, btc_price |-> <<5, 4>>, ahr999 |-> R(1)],
    [Date |-> 20240103, btc_price |-> R(2), ahr999 |-> <<5, 4>>],
    [Date |-> 20231231, btc_price |-> <<5, 4>>, ahr999 |-> R(2)] }

RECURSIVE SeqsUpTo(_, _)
SeqsUpTo(S, n) ==
  IF n = 0 THEN {<<>>}
  ELSE LET prev == SeqsUpTo(S, n - 1)
       IN  prev \cup {Append(s, x) : s \in {t \in prev : Len(t) = n - 1}, x \in S}

\* ------------------------------------------------------ indicator fetch
MinHistory == 200

\* what the two HTTP requests and the clock yield for one call
Responses ==
  { [cur_ok |-> FALSE, cur_price |-> Zero, hist_ok |-> TRUE, n |-> 200,
     price_sum |-> R(400), target_price |-> R(4)],
    [cur_ok |-> TRUE, cur_price |-> R(2), hist_ok |-> FALSE, n |-> 0,
     price_sum |-> Zero, target_price |-> R(4)],
    [cur_ok |-> TRUE, cur_price |-> R(2), hist_ok |-> TRUE, n |-> 199,
     price_sum |-> R(398), target_price |-> R(4)],
    [cur_ok |-> TRUE, cur_price |-> R(2), hist_ok |-> TRUE, n |-> 200,
     price_sum |-> R(400), target_price |-> R(4)],
    [cur_ok |-> TRUE, cur_price |-> R(2), hist_ok |-> TRUE, n |-> 201,
     price_sum |-> R(201), target_price |-> R(1)] }

NoResponse ==
  [cur_ok |-> FALSE, cur_price |-> Zero, hist_ok |-> FALSE, n |-> 0,
   price_sum |-> Zero, target_price |-> Zero]

\* a fetch that ignores the 200-point requirement
calculateActiveDCA_NoLengthCheck(resp) ==
  IF ~resp.cur_ok THEN <<None, None>>
  ELSE IF ~resp.hist_ok THEN <<None, None>>
  ELSE <<RMul(RDiv(resp.cur_price, resp.target_price),
              RDiv(resp.cur_price, RDiv(resp.price_sum, R(resp.n)))),
         resp.cur_price>>

\* returns <<p, cur_price>> or <<None, None>>
calculateActiveDCA(resp) ==
  IF ~resp.cur_ok THEN <<None, None>>
  ELSE IF ~resp.hist_ok THEN <<None, None>>
  ELSE IF resp.n < MinHistory THEN <<None, None>>
  ELSE LET average_200_day_price == RDiv(resp.price_sum, R(resp.n))
           p1 == RDiv(resp.cur_price, resp.target_price)
           p2 == RDiv(resp.cur_price, average_200_day_price)
       IN  <<RMul(p1, p2), resp.cur_price>>

\* ------------------------------------------------------ strategy engine
dynamic_investment(c, ahr999_value) ==
  RMul(c.daily_investment, RDiv(c.weight_coefficient, ahr999_value))

\* a Buy that pays for the purchase out of cash
BuyBranch_DeductCash(c, cash0, position0, btc_price, ahr999_value) ==
  [cash |-> RSub(cash0, dynamic_investment(c, ahr999_value)),
   position |-> RAdd(position0, RDiv(dynamic_investment(c, ahr999_value), btc_price)),
   action |-> "Buy",
   operation_amount |-> dynamic_investment(c, ahr999_value)]

\* ahr999_value < stop_investing
BuyBranch(c, cash0, position0, btc_price, ahr999_value) ==
  [cash |-> cash0,
   position |-> RAdd(position0, RDiv(dynamic_investment(c, ahr999_value), btc_price)),
   action |-> "Buy",
   operation_amount |-> dynamic_investment(c, ahr999_value)]

\* a neutral step that accumulates the scaled amount instead of the daily one
HoldBranch_AddDynamic(c, cash0, position0, ahr999_value) ==
  [cash |-> RAdd(cash0, dynamic_investment(c, ahr999_value)), position |-> position0,
   action |-> "Hold", operation_amount |-> Zero]

\* stop_investing <= ahr999_value < sell_threshold
HoldBranch(c, cash0, position0, ahr999_value) ==
  [cash |-> RAdd(cash0, c.daily_investment), position |-> position0,
   action |-> "Hold", operation_amount |-> Zero]

\* a Sell that credits the proceeds but keeps the holding
SellBranch_KeepPosition(cash0, position0, btc_price) ==
  [cash |-> RAdd(cash0, RMul(position0, btc_price)), position |-> position0,
   action |-> "Sell", operation_amount |-> RMul(position0, btc_price)]

\* ahr999_value >= sell_threshold and position > 0
SellBranch(cash0, position0, btc_price) ==
  [cash |-> RAdd(cash0, RMul(position0, btc_price)), position |-> Zero,
   action |-> "Sell", operation_amount |-> RMul(position0, btc_price)]

\* the if / elif / elif chain of executeStrategy
Phase1(c, cash0, position0, btc_price, ahr999_value) ==
  IF RLt(ahr999_value, c.stop_investing)
  THEN BuyBranch(c, cash0, position0, btc_price, ahr999_value)
  ELSE IF RLe(c.stop_investing, ahr999_value) /\ RLt(ahr999_value, c.sell_threshold)
  THEN HoldBranch(c, cash0, position0, ahr999_value)
  ELSE IF RLe(c.sell_threshold, ahr999_value) /\ RLt(Zero, position0)
  THEN SellBranch(cash0, position0, btc_price)
  ELSE [cash |-> cash0, position |-> position0,
        action |-> "Hold", operation_amount |-> Zero]

DipFires(c, s1, ahr999_value) ==
  RLt(ahr999_value, c.dip_buy_threshold) /\ RLt(Zero, s1.cash)

\* a dip-buy that adds the invested money, not the quantity it buys
DipBranch_NoPriceDivision(c, s1, btc_price) ==
  LET invest_amount == RMul(s1.cash, c.invest_percentage)
  IN  [cash |-> RSub(s1.cash, invest_amount),
       position |-> RAdd(s1.position, invest_amount),
       action |-> "DipBuy",
       operation_amount |-> invest_amount]

\* a dip-buy that, like Buy, leaves cash alone
DipBranch_KeepCash(c, s1, btc_price) ==
  LET invest_amount == RMul(s1.cash, c.invest_percentage)
  IN  [cash |-> s1.cash,
       position |-> RAdd(s1.position, RDiv(invest_amount, btc_price)),
       action |-> "DipBuy",
       operation_amount |-> invest_amount]

\* ahr999_value < dip_buy_threshold and cash > 0
DipBranch(c, s1, btc_price) ==
  LET invest_amount == RMul(s1.cash, c.invest_percentage)
  IN  [cash |-> RSub(s1.cash, invest_amount),
       position |-> RAdd(s1.position, RDiv(invest_amount, btc_price)),
       action |-> "DipBuy",
       operation_amount |-> invest_amount]

\* the trailing dip-buy if of executeStrategy, applied to Phase 1's result
Phase2(c, s1, btc_price, ahr999_value) ==
  IF DipFires(c, s1, ahr999_value) THEN DipBranch(c, s1, btc_price) ELSE s1

\* The whole call.  btc_price / ahr999_value may be None; resp is what the
\* fetch would yield.  The result carries the new state, the returned pair
\* and a trace of the call (inputs, state before, state after Phase 1).
executeStrategy(c, cash0, position0, btc_price_arg, ahr999_arg, resp) ==
  LET fetch == (btc_price_arg = None \/ ahr999_arg = None)
      got == calculateActiveDCA(resp)
      ahr999_value == IF fetch THEN got[1] ELSE ahr999_arg
      btc_price == IF fetch THEN got[2] ELSE btc_price_arg
  IN  IF fetch /\ (ahr999_value = None \/ btc_price = None)
      THEN [cash |-> cash0, position |-> position0,
            action |-> "None", operation_amount |-> None,
            fetch |-> fetch, resp |-> resp,
            btc_price |-> None, ahr999_value |-> None,
            cash0 |-> cash0, position0 |-> position0,
            cash1 |-> cash0, position1 |-> position0, action1 |-> "None"]
      ELSE LET s1 == Phase1(c, cash0, position0, btc_price, ahr999_value)
               s2 == Phase2(c, s1, btc_price, ahr999_value)
           IN  [cash |-> s2.cash, position |-> s2.position,
                action |-> s2.action, operation_amount |-> s2.operation_amount,
                fetch |-> fetch, resp |-> resp,
                btc_price |-> btc_price, ahr999_value |-> ahr999_value,
                cash0 |-> cash0, position0 |-> position0,
                cash1 |-> s1.cash, position1 |-> s1.position,
                action1 |-> s1.action]

\* -------------------------------------------------------- backtest runner
\* pd.to_datetime(..., format='%Y%m%d') on the 8-digit integer
to_datetime(d) ==
  [year |-> d \div 10000, month |-> (d \div 100) % 100, day |-> d % 100]

\* a valuation that prices the cash instead of the holding
calculate_portfolio_value_Swapped(pos, btc_price, csh) ==
  RAdd(pos, RMul(csh, btc_price))

calculate_portfolio_value(pos, btc_price, csh) ==
  RAdd(csh, RMul(pos, btc_price))

\* a ledger that grows at the front
record_action_Prepend(actions, date, btc_price, ahr999_value, action, operation_amount, value, csh, pos) ==
  <<[Date |-> date,
     Bitcoin_Price |-> round(btc_price, 1),
     ahr999 |-> round(ahr999_value, 3),
     Cash_Holdings |-> round(csh, 1),
     Bitcoin_Quantity |-> round(pos, 5),
     Action |-> action,
     Operation_Amount |-> round(operation_amount, 1),
     Portfolio_Value |-> round(value, 1)]>> \o actions

record_action(actions, date, btc_price, ahr999_value, action, operation_amount, value, csh, pos) ==
  Append(actions,
         [Date |-> date,
          Bitcoin_Price |-> round(btc_price, 1),
          ahr999 |-> round(ahr999_value, 3),
          Cash_Holdings |-> round(csh, 1),
          Bitcoin_Quantity |-> round(pos, 5),
          Action |-> action,
          Operation_Amount |-> round(operation_amount, 1),
          Portfolio_Value |-> round(value, 1)])

\* ------------------------------------------------------------------ state
VARIABLES
  cfg,            \* the six configuration fields of the ActiveDCA object
  cash,           \* ActiveDCA.cash
  position,       \* ActiveDCA.position
  call,           \* trace of the most recent executeStrategy call
  ncalls,         \* number of direct calls made so far
  pc,             \* "idle" | "ready" | "loop" | "done" | "failed"
  df,             \* the series inside run_backtest (Date already converted)
  i,              \* number of loop iterations of run_backtest completed
  daily_actions,  \* Backtest.daily_actions
  initial_cash,   \* Backtest.initial_cash
  current_value   \* run_backtest's local of the last iteration

vars == <<cfg, cash, position, call, ncalls, pc, df, i, daily_actions,
          initial_cash, current_value>>

NoCall ==
  [cash |-> Zero, position |-> Zero, action |-> "NoCall",
   operation_amount |-> None, fetch |-> FALSE, resp |-> NoResponse,
   btc_price |-> None, ahr999_value |-> None,
   cash0 |-> Zero, position0 |-> Zero, cash1 |-> Zero, position1 |-> Zero,
   action1 |-> "None"]

\* ActiveDCA.__init__
Init ==
  /\ cfg \in Configs
  /\ cash \in InitialCash
  /\ position = Zero
  /\ call = NoCall
  /\ ncalls = 0
  /\ pc = "idle"
  /\ df = <<>>
  /\ i = 0
  /\ daily_actions = <<>>
  /\ initial_cash = None
  /\ current_value = None

\* strategy.executeStrategy(btc_price, ahr999_value) called directly
ExecuteStrategyDirect ==
  /\ pc = "idle"
  /\ ncalls < MaxCalls
  /\ \E btc_price \in Prices, ahr999_value \in Indicators :
       LET r == executeStrategy(cfg, cash, position, btc_price, ahr999_value, NoResponse)
       IN  /\ cash' = r.cash
           /\ position' = r.position
           /\ call' = r
  /\ ncalls' = ncalls + 1
  /\ UNCHANGED <<cfg, pc, df, i, daily_actions, initial_cash, current_value>>

\* strategy.executeStrategy() with the price or the indicator left out
ExecuteStrategyFetch ==
  /\ pc = "idle"
  /\ ncalls < MaxCalls
  /\ \E args \in {<<None, None>>, <<R(2), None>>, <<None, R(1)>>}, resp \in Responses :
       LET r == executeStrategy(cfg, cash, position, args[1], args[2], resp)
       IN  /\ cash' = r.cash
           /\ position' = r.position
           /\ call' = r
  /\ ncalls' = ncalls + 1
  /\ UNCHANGED <<cfg, pc, df, i, daily_actions, initial_cash, current_value>>

\* Backtest.__init__(strategy)
BacktestInit ==
  /\ pc = "idle"
  /\ pc' = "ready"
  /\ daily_actions' = <<>>
  /\ initial_cash' = cash
  /\ UNCHANGED <<cfg, cash, position, call, ncalls, df, i, current_value>>

\* run_backtest(df): the Date conversion before the loop
RunBacktestBegin ==
  /\ pc = "ready"
  /\ \E input \in SeqsUpTo(Samples, MaxLen) :
       df' = [k \in 1..Len(input) |-> [input[k] EXCEPT !.Date = to_datetime(@)]]
  /\ i' = 0
  /\ pc' = "loop"
  /\ UNCHANGED <<cfg, cash, position, call, ncalls, daily_actions, initial_cash,
                 current_value>>

\* one iteration of "for i in range(len(df))"
RunBacktestStep ==
  /\ pc = "loop"
  /\ i < Len(df)
  /\ LET row == df[i + 1]
         r == executeStrategy(cfg, cash, position, row.btc_price, row.ahr999, NoResponse)
         value == calculate_portfolio_value(r.position, row.btc_price, r.cash)
     IN  /\ cash' = r.cash
         /\ position' = r.position
         /\ call' = r
         /\ current_value' = value
         /\ daily_actions' = record_action(daily_actions, row.Date, row.btc_price,
                                           row.ahr999, r.action, r.operation_amount,
                                           value, r.cash, r.position)
  /\ i' = i + 1
  /\ UNCHANGED <<cfg, ncalls, pc, df, initial_cash>>

\* generate_charts(df) after the loop: reads the ledger, changes no state;
\* building the frame from an empty ledger leaves no 'Date' column to plot
GenerateCharts ==
  /\ pc = "loop"
  /\ i = Len(df)
  /\ pc' = IF Len(daily_actions) = 0 THEN "failed" ELSE "done"
  /\ UNCHANGED <<cfg, cash, position, call, ncalls, df, i, daily_actions,
                 initial_cash, current_value>>

Next ==
  \/ ExecuteStrategyDirect
  \/ ExecuteStrategyFetch
  \/ BacktestInit
  \/ RunBacktestBegin
  \/ RunBacktestStep
  \/ GenerateCharts

Spec == Init /\ [][Next]_vars

\* The loop is straight-line sequential code: once entered, control keeps
\* moving.  LoopAdvance is the control-flow part of RunBacktestStep and
\* GenerateCharts (every step of either satisfies it, and no other step does).
LoopAdvance ==
  /\ pc = "loop"
  /\ \/ i < Len(df) /\ i' = i + 1 /\ pc' = "loop"
     \/ i = Len(df) /\ i' = i /\ pc' \in {"done", "failed"}

FairSpec == Spec /\ WF_<<pc, i>>(LoopAdvance)

TypeOK ==
  /\ cfg \in Configs
  /\ pc \in {"idle", "ready", "loop", "done", "failed"}
  /\ i \in 0..Len(df)
  /\ ncalls \in 0..MaxCalls

\* ------------------------------------------------------------ properties
Decided == call.action \in {"Buy", "Hold", "Sell", "DipBuy"}
InBacktest == pc \in {"loop", "done", "failed"}

\* C1: whenever the returned action is Sell, the position after the call is
\* 0, the cash after the call is cashBefore + positionBefore * price, and the
\* reported amount is positionBefore * price.
C1_SellClearsPosition ==
  call.action = "Sell" =>
    /\ position = Zero
    /\ cash = RAdd(call.cash0, RMul(call.position0, call.btc_price))
    /\ call.operation_amount = RMul(call.position0, call.btc_price)

C1_Witness ==
  /\ call.action = "Sell"
  /\ RLt(Zero, call.position0)
  /\ RLt(Zero, call.cash0)
  /\ call.btc_price # R(1)

\* C2 as stated: every step reporting Buy or DipBuy has positionAfter >
\* positionBefore and positionAfter - positionBefore = operationAmount / price.
C2_Original ==
  call.action \in {"Buy", "DipBuy"} =>
    /\ RLt(call.position0, position)
    /\ RSub(position, call.position0) = RDiv(call.operation_amount, call.btc_price)

\* C2 amended: a step reporting Buy has positionAfter > positionBefore and
\* positionAfter - positionBefore = operationAmount / price; a step reporting
\* DipBuy has positionAfter - (position after Phase 1) = operationAmount / price.
C2_PositionDelta ==
  /\ call.action = "Buy" =>
       /\ RLt(call.position0, position)
       /\ RSub(position, call.position0) = RDiv(call.operation_amount, call.btc_price)
  /\ call.action = "DipBuy" =>
       RSub(position, call.position1) = RDiv(call.operation_amount, call.btc_price)

C2_Witness ==
  /\ call.action = "DipBuy"
  /\ call.action1 = "Buy"
  /\ RLt(Zero, call.operation_amount)
  /\ call.btc_price # R(1)

\* C3 as stated: whenever Phase 1 ends with Hold and the dip overlay does not
\* fire, cashAfter = cashBefore + dailyInvestment and the position is unchanged.
C3_Original ==
  (call.action1 = "Hold" /\ call.action = "Hold") =>
    /\ cash = RAdd(call.cash0, cfg.daily_investment)
    /\ position = call.position0

NeutralRegime(c, ahr999_value) ==
  RLe(c.stop_investing, ahr999_value) /\ RLt(ahr999_value, c.sell_threshold)

\* C3 amended: when the neutral branch (stopInvesting <= indicator <
\* sellThreshold) is taken and the dip overlay does not fire, cashAfter =
\* cashBefore + dailyInvestment; when Phase 1 ends with Hold because no branch
\* is taken, cashAfter = cashBefore; the position is unchanged in both cases.
C3_HoldAccumulates ==
  (call.action1 = "Hold" /\ call.action = "Hold") =>
    /\ position = call.position0
    /\ call.operation_amount = Zero
    /\ cash = IF NeutralRegime(cfg, call.ahr999_value)
              THEN RAdd(call.cash0, cfg.daily_investment)
              ELSE call.cash0

C3_Witness ==
  /\ call.action1 = "Hold"
  /\ call.action = "Hold"
  /\ NeutralRegime(cfg, call.ahr999_value)
  /\ call.ahr999_value # R(1)

\* C4: whenever the indicator is below dipBuyThreshold and the cash left by
\* Phase 1 is positive, the call reports DipBuy with amount investPercentage *
\* (cash after Phase 1), deducts that amount from the cash after Phase 1 and
\* adds amount / price to the position after Phase 1; if the indicator is also
\* below stopInvesting the position holds both purchases.
C4_DipOverlay ==
  (/\ Decided
   /\ RLt(call.ahr999_value, cfg.dip_buy_threshold)
   /\ RLt(Zero, call.cash1)) =>
    /\ call.action = "DipBuy"
    /\ call.operation_amount = RMul(cfg.invest_percentage, call.cash1)
    /\ cash = RSub(call.cash1, call.operation_amount)
    /\ position = RAdd(call.position1, RDiv(call.operation_amount, call.btc_price))
    /\ RLt(call.ahr999_value, cfg.stop_investing) =>
         position = RAdd(RAdd(call.position0,
                              RDiv(dynamic_investment(cfg, call.ahr999_value),
                                   call.btc_price)),
                         RDiv(call.operation_amount, call.btc_price))

C4_Witness ==
  /\ call.action = "DipBuy"
  /\ call.action1 = "Buy"
  /\ RLt(Zero, call.cash1)
  /\ RLt(Zero, call.operation_amount)
  /\ RLt(call.ahr999_value, cfg.stop_investing)

ConfigInRange(c) ==
  /\ RLe(Zero, c.invest_percentage) /\ RLe(c.invest_percentage, R(1))
  /\ RLt(Zero, c.daily_investment)
  /\ RLt(Zero, c.weight_coefficient)

\* C6: with 0 <= investPercentage <= 1, dailyInvestment > 0 and
\* weightCoefficient > 0, starting from cash >= 0 and position = 0, cash >= 0
\* and position >= 0 in every reachable state.
C6_NonNegative ==
  ConfigInRange(cfg) => RLe(Zero, cash) /\ RLe(Zero, position)

C6_Witness ==
  /\ ConfigInRange(cfg)
  /\ call.action = "DipBuy"
  /\ cfg.invest_percentage = R(1)
  /\ cash = Zero
  /\ RLt(Zero, position)

\* C7: after every step of the runner, the value computed for the record is
\* cash + position * price of the unrounded post-decision state and that
\* step's price, and the record stores it rounded to one decimal.
C7_ValuationIdentity ==
  (InBacktest /\ i >= 1) =>
    /\ current_value = RAdd(cash, RMul(position, df[i].btc_price))
    /\ daily_actions[Len(daily_actions)].Portfolio_Value = round(current_value, 1)

C7_Witness ==
  /\ InBacktest /\ i >= 2
  /\ RLt(Zero, cash) /\ RLt(Zero, position)
  /\ df[i].btc_price # R(1)
  /\ round(current_value, 1) # current_value

FetchFailed(resp) == ~resp.cur_ok \/ ~resp.hist_ok \/ resp.n < MinHistory

\* C8: a call made without a price or without an indicator whose fetch fails
\* (request error or fewer than 200 historical prices) returns (None, None)
\* and leaves cash and position as they were.
C8_FailedFetchNoDecision ==
  (call.fetch /\ FetchFailed(call.resp)) =>
    /\ call.action = "None"
    /\ call.operation_amount = None
    /\ cash = call.cash0
    /\ position = call.position0

C8_Witness ==
  /\ call.fetch
  /\ call.resp.cur_ok /\ call.resp.hist_ok
  /\ call.resp.n = MinHistory - 1
  /\ call.action = "None"
  /\ RLt(Zero, cash)

LedgerMatchesSeries ==
  InBacktest =>
    /\ Len(daily_actions) = i
    /\ \A k \in 1..Len(daily_actions) :
         /\ k <= Len(df)
         /\ daily_actions[k].Date = df[k].Date
         /\ daily_actions[k].Bitcoin_Price = round(df[k].btc_price, 1)
         /\ daily_actions[k].ahr999 = round(df[k].ahr999, 3)
    /\ pc \in {"done", "failed"} => i = Len(df)

StepIsOneCall ==
  (pc = "loop" /\ (cash' # cash \/ position' # position \/ call' # call
                   \/ daily_actions' # daily_actions \/ i' # i)) =>
    /\ i' = i + 1
    /\ i' <= Len(df)
    /\ call'.cash0 = cash /\ call'.position0 = position
    /\ call'.btc_price = df[i'].btc_price
    /\ call'.ahr999_value = df[i'].ahr999
    /\ cash' = call'.cash /\ position' = call'.position
    /\ SubSeq(daily_actions', 1, i) = daily_actions
    /\ daily_actions'[i'].Action = call'.action

\* C9: run_backtest is a left-to-right fold that terminates: each iteration is
\* one executeStrategy call on the next sample starting from the unrounded
\* state the previous call left, the ledger always holds one record per
\* processed sample carrying that sample's date, price and indicator (as
\* recorded), and the run ends with exactly Len(df) records.
C9_SequentialFold ==
  /\ []LedgerMatchesSeries
  /\ [][StepIsOneCall]_vars
  /\ (pc = "loop") ~> (pc \in {"done", "failed"})

C9_Witness ==
  /\ pc = "done"
  /\ Len(df) >= 2
  /\ Len(daily_actions) = Len(df)
  /\ df[1] # df[2]
  /\ call.cash0 # round(call.cash0, 1)

NoConsecutiveSell ==
  \A k \in 1..(Len(daily_actions) - 1) :
    ~(daily_actions[k].Action = "Sell" /\ daily_actions[k + 1].Action = "Sell")

SellOnlyAfterRebuy ==
  \A a, b \in 1..Len(daily_actions) :
    (a < b /\ daily_actions[a].Action = "Sell" /\ daily_actions[b].Action = "Sell") =>
      \E k \in (a + 1)..(b - 1) : daily_actions[k].Action \in {"Buy", "DipBuy"}

SellLeavesNothing ==
  (Len(daily_actions) >= 1 /\ daily_actions[Len(daily_actions)].Action = "Sell") =>
    position = Zero

\* C10 as stated: no two consecutive records are both Sell, a later Sell needs
\* a Buy or DipBuy in between, and any step with indicator >= sellThreshold
\* taken at position 0 on which the dip overlay does not fire leaves cash and
\* position unchanged and reports Hold with amount 0.
C10_Original ==
  (InBacktest /\ i >= 1) =>
    /\ NoConsecutiveSell
    /\ SellOnlyAfterRebuy
    /\ SellLeavesNothing
    /\ (/\ RLe(cfg.sell_threshold, call.ahr999_value)
        /\ call.position0 = Zero
        /\ ~DipFires(cfg, [cash |-> call.cash1], call.ahr999_value)) =>
         /\ cash = call.cash0 /\ position = call.position0
         /\ call.action = "Hold" /\ call.operation_amount = Zero

\* C10 amended: no two consecutive records are both Sell, a later Sell needs a
\* Buy or DipBuy in between, and a step with indicator >= sellThreshold and
\* indicator >= stopInvesting taken at position 0 on which the dip overlay
\* does not fire leaves cash and position unchanged and reports Hold, amount 0.
C10_NoRepeatedSell ==
  (InBacktest /\ i >= 1) =>
    /\ NoConsecutiveSell
    /\ SellOnlyAfterRebuy
    /\ SellLeavesNothing
    /\ (/\ RLe(cfg.sell_threshold, call.ahr999_value)
        /\ RLe(cfg.stop_investing, call.ahr999_value)
        /\ call.position0 = Zero
        /\ ~DipFires(cfg, [cash |-> call.cash1], call.ahr999_value)) =>
         /\ cash = call.cash0 /\ position = call.position0
         /\ call.action = "Hold" /\ call.operation_amount = Zero

C10_Witness ==
  /\ InBacktest /\ i >= 2
  /\ daily_actions[i - 1].Action = "Sell"
  /\ RLe(cfg.sell_threshold, call.ahr999_value)
  /\ RLe(cfg.stop_investing, call.ahr999_value)
  /\ call.position0 = Zero
  /\ daily_actions[i].Action = "Hold"
====
